---- MODULE Spec2Model ----
(***************************************************************************)
(* Model of the Viewer3D component (src/src/components/Toolbar.tsx, lines  *)
(* 266-691) and of the file selection in src/src/pages/Index.tsx.          *)
(*                                                                         *)
(* Numbers: every coordinate, distance and scalar of the program is a      *)
(* floating point number; the model keeps them in fixed point with U       *)
(* model units for 1.0 (so 0.1 is 100 and 0.5 is 500).  Square roots and   *)
(* quotients truncate.  Indices are 1-based here and 0-based in the code.  *)
(*                                                                         *)
(* React: the component runs under React 18 automatic batching: all the    *)
(* setState calls of one event handler are applied together, the component *)
(* re-renders and its effects run before the next event is handled.  Each  *)
(* action below is therefore one handler followed by the re-render and the *)
(* effects whose dependencies changed.                                     *)
(***************************************************************************)
EXTENDS Integers, Sequences, FiniteSets, TLC

VARIABLES
    stlFile,            \* Index.tsx:11       selected file (0 = null), a read id
    reads,              \* Toolbar.tsx:490    FileReader reads in flight
    mode,               \* Index.tsx:10       active tool mode
    activeMesh,         \* Toolbar.tsx:272    activeMeshRef.current (Null or a mesh)
    scene,              \* Toolbar.tsx:268    sceneRef.current.children, in order
    measureStartPoint,  \* Toolbar.tsx:273
    measureLine,        \* Toolbar.tsx:274
    marginLine,         \* Toolbar.tsx:275
    marginPoints,       \* Toolbar.tsx:276
    crossSectionValue,  \* Toolbar.tsx:278
    crossSectionPlane,  \* Toolbar.tsx:279    crossSectionPlaneRef.current
    planeHelper,        \* Toolbar.tsx:280    planeHelperRef.current (object id, 0 = null)
    notes,              \* Toolbar.tsx:281
    listener,           \* Toolbar.tsx:533    state captured by the registered handleClick
    nextId,             \* allocator of object identities (JavaScript references)
    neighborsOut,       \* result of the last neighbour query
    averageOut,         \* index list and result of the last average query
    used,               \* file selections and slider changes made so far
    lastOp              \* history: the last operation, its input and a step count

vars == <<stlFile, reads, mode, activeMesh, scene, measureStartPoint, measureLine,
          marginLine, marginPoints, crossSectionValue, crossSectionPlane,
          planeHelper, notes, listener, nextId, neighborsOut, averageOut, used,
          lastOp>>

Null == [null |-> TRUE]

-----------------------------------------------------------------------------
(* Bounds of the model *)

MaxOps == 2         \* operations of one behaviour of GeomSpec
MaxClicks == 4      \* clicks of one behaviour of Spec
MaxLoads == 2       \* file selections of one behaviour of Spec
MaxSlides == 1      \* slider changes of one behaviour of Spec
MaxModeChanges == 1 \* toolbar mode changes of one behaviour of Spec

-----------------------------------------------------------------------------
(* Fixed point arithmetic and THREE.Vector3 *)

U == 1000

Abs(a) == IF a < 0 THEN -a ELSE a

\* quotient truncated toward zero
Div(a, b) == IF a >= 0 THEN a \div b ELSE -((-a) \div b)

RECURSIVE SqrtIter(_, _, _)
SqrtIter(n, lo, hi) ==
    IF lo >= hi THEN lo
    ELSE LET mid == (lo + hi + 1) \div 2
         IN  IF mid * mid <= n THEN SqrtIter(n, mid, hi) ELSE SqrtIter(n, lo, mid - 1)

\* Math.sqrt, truncated
Sqrt(n) == SqrtIter(n, 0, 32767)

Zero3 == <<0, 0, 0>>

VAdd(a, b) == <<a[1] + b[1], a[2] + b[2], a[3] + b[3]>>

VSub(a, b) == <<a[1] - b[1], a[2] - b[2], a[3] - b[3]>>

\* Vector3.multiplyScalar with a fixed point scalar s
multiplyScalar(a, s) == <<Div(a[1] * s, U), Div(a[2] * s, U), Div(a[3] * s, U)>>

\* Vector3.divideScalar with an integer count
divideScalar(a, n) == <<Div(a[1], n), Div(a[2], n), Div(a[3], n)>>

Dot(a, b) == a[1] * b[1] + a[2] * b[2] + a[3] * b[3]

DistSq(a, b) == Dot(VSub(a, b), VSub(a, b))

\* Vector3.distanceTo
distanceTo(a, b) == Sqrt(DistSq(a, b))

\* Vector3.lerp(v, alpha) = this + (v - this) * alpha
lerp(a, b, alpha) == VAdd(a, multiplyScalar(VSub(b, a), alpha))

Cross(a, b) == <<a[2] * b[3] - a[3] * b[2],
                 a[3] * b[1] - a[1] * b[3],
                 a[1] * b[2] - a[2] * b[1]>>

Max3(a) == LET x == Abs(a[1])  y == Abs(a[2])  z == Abs(a[3])
           IN  IF x >= y /\ x >= z THEN x ELSE IF y >= z THEN y ELSE z

\* Vector3.normalize: divideScalar(length() || 1); the vector is first
\* brought into a range where its squared length fits the integer width
normalize(a) ==
    LET k == Max3(a) \div 10000 + 1
        c == <<Div(a[1], k), Div(a[2], k), Div(a[3], k)>>
        len == Sqrt(Dot(c, c))
    IN  IF len = 0 THEN Zero3
        ELSE <<Div(c[1] * U, len), Div(c[2] * U, len), Div(c[3] * U, len)>>

-----------------------------------------------------------------------------
(* Geometry *)

\* BufferGeometry.computeVertexNormals of a non-indexed geometry (what
\* STLLoader.parse returns): vertices 3t+1..3t+3 are triangle t, and each
\* gets the normalised face normal (pC - pB) x (pA - pB)
computeVertexNormals(position) ==
    [i \in 1..Len(position) |->
        LET t == (i - 1) \div 3
            pA == position[3 * t + 1]
            pB == position[3 * t + 2]
            pC == position[3 * t + 3]
        IN  normalize(Cross(VSub(pC, pB), VSub(pA, pB)))]

Epsilon == 100      \* 0.1
Radius == 1000      \* radius = 1
Strength == 500     \* strength = 0.5
ContactDistance == 500   \* 0.5

IsNeighborInclusive(distance) == distance <= Epsilon

\* the threshold test of findNeighborVertices
IsNeighbor(distance) == distance < Epsilon

RECURSIVE NeighborScan(_, _, _, _)
NeighborScan(i, vertexIndex, position, neighbors) ==
    IF i > Len(position) THEN neighbors
    ELSE IF i # vertexIndex /\ IsNeighbor(distanceTo(position[vertexIndex], position[i]))
         THEN NeighborScan(i + 1, vertexIndex, position, Append(neighbors, i))
         ELSE NeighborScan(i + 1, vertexIndex, position, neighbors)

findNeighborVertices(vertexIndex, position) ==
    NeighborScan(1, vertexIndex, position, <<>>)

RECURSIVE SumPositions(_, _, _)
SumPositions(k, indices, position) ==
    IF k > Len(indices) THEN Zero3
    ELSE VAdd(position[indices[k]], SumPositions(k + 1, indices, position))

calculateAveragePositionByCount(indices, position) ==
    divideScalar(SumPositions(1, indices, position), Len(position))

calculateAveragePosition(indices, position) ==
    LET avg == SumPositions(1, indices, position)
    IN  IF Len(indices) > 0 THEN divideScalar(avg, Len(indices)) ELSE avg

\* the body of the vertex loop of applyDeformation for one vertex inside the
\* radius: the new value of vertex i, read from the buffer as it is now
DeformVertex(i, position, normal, m, point, distance) ==
    LET vertex == position[i]
        influence == U - Div(distance * U, Radius)
        alpha == Div(Strength * influence, U)
    IN  CASE m = "push"   -> VAdd(vertex, multiplyScalar(normal[i], alpha))
          [] m = "smooth" -> lerp(vertex,
                                  calculateAveragePosition(
                                      findNeighborVertices(i, position), position),
                                  alpha)
          [] m = "scale"  -> VAdd(multiplyScalar(VSub(vertex, point), U + alpha), point)
          [] OTHER        -> vertex

InRadiusDiameter(distance) == distance < 2 * Radius

\* the radius test of applyDeformation
InRadius(distance) == distance < Radius

RECURSIVE DeformLoop(_, _, _, _, _)
DeformLoop(i, position, normal, m, point) ==
    IF i > Len(position) THEN position
    ELSE LET distance == distanceTo(position[i], point)
         IN  IF InRadius(distance)
             THEN DeformLoop(i + 1,
                             [position EXCEPT ![i] =
                                 DeformVertex(i, position, normal, m, point, distance)],
                             normal, m, point)
             ELSE DeformLoop(i + 1, position, normal, m, point)

RecomputeNormals(position, normal) == computeVertexNormals(position)

\* applyDeformation(point) under tool mode m on mesh msh (Null: no-op)
applyDeformation(msh, m, point) ==
    IF msh = Null THEN msh
    ELSE LET p == DeformLoop(1, msh.position, msh.normal, m, point)
         IN  [msh EXCEPT !.position = p, !.normal = RecomputeNormals(p, msh.normal)]

IsNearInclusive(distance) == distance <= ContactDistance

\* the threshold test of performOcclusalAnalysis
IsNear(distance) == distance < ContactDistance

\* Color.setHSL(0, 1, 0.5) is red, setHSL(0.6, 1, 0.5) is blue
OcclusalColor(distance) == IF IsNear(distance) THEN "red" ELSE "blue"

performOcclusalAnalysis(msh, point) ==
    IF msh = Null THEN msh
    ELSE [msh EXCEPT
            !.color = [i \in 1..Len(msh.position) |->
                          OcclusalColor(distanceTo(msh.position[i], point))],
            !.vertexColors = TRUE]

-----------------------------------------------------------------------------
(* Files and decoded meshes *)

\* three decoded STL files: vertex positions, three per triangle
FileNames == {"A", "B", "C"}

FileGeometry(f) ==
    CASE f = "A" -> << <<0, 0, 0>>, <<1500, 0, 0>>, <<0, 1500, 0>>,
                       <<500, 0, 0>>, <<1000, 0, 0>>, <<500, 400, 0>> >>
      [] f = "B" -> << <<0, 0, 0>>, <<80, 0, 0>>, <<160, 60, 0>> >>
      [] f = "C" -> << <<-600, 0, 0>>, <<600, 0, 0>>, <<0, 0, 800>> >>

Min(a, b) == IF a < b THEN a ELSE b
Max(a, b) == IF a > b THEN a ELSE b

RECURSIVE BoxMin(_, _, _)
BoxMin(position, k, i) ==
    IF i = Len(position) THEN position[i][k]
    ELSE Min(position[i][k], BoxMin(position, k, i + 1))

RECURSIVE BoxMax(_, _, _)
BoxMax(position, k, i) ==
    IF i = Len(position) THEN position[i][k]
    ELSE Max(position[i][k], BoxMax(position, k, i + 1))

\* geometry.computeBoundingBox(); boundingBox.getCenter(center)
BoxCenter(position) ==
    [k \in 1..3 |-> Div(BoxMin(position, k, 1) + BoxMax(position, k, 1), 2)]

\* new THREE.Mesh(loader.parse(...), material) with mesh.position.sub(center)
NewMesh(id, f) ==
    LET position == FileGeometry(f)
    IN  [id |-> id, file |-> f,
         position |-> position,
         normal |-> computeVertexNormals(position),
         color |-> <<>>, vertexColors |-> FALSE,
         meshPosition |-> VSub(Zero3, BoxCenter(position)),
         clipped |-> FALSE]

-----------------------------------------------------------------------------
(* The geometric operations on their own: a loaded mesh, and the operations *)
(* applied to pick points drawn from a fixed set                            *)

DeformModes == {"push", "smooth", "scale"}

GeomPoints == {<<0, 0, 0>>, <<1000, 0, 0>>, <<80, 0, 0>>}

NoOp == [kind |-> "none", mode |-> "view", point |-> Zero3, target |-> 0,
         onMesh |-> FALSE, n |-> 0]

ModelObject(msh) == [id |-> msh.id, kind |-> "model", pts |-> <<>>, val |-> 0]

GeomInit ==
    /\ \E f \in FileNames : activeMesh = NewMesh(-1, f)
    /\ scene = <<ModelObject(activeMesh)>>
    /\ mode \in DeformModes
    /\ stlFile = -1
    /\ reads = {}
    /\ measureStartPoint = Null
    /\ measureLine = Null
    /\ marginLine = Null
    /\ marginPoints = <<>>
    /\ crossSectionValue = 0
    /\ crossSectionPlane = Null
    /\ planeHelper = 0
    /\ notes = <<>>
    /\ listener = Null
    /\ nextId = 1
    /\ neighborsOut = <<>>
    /\ averageOut = [indices |-> <<>>, avg |-> Zero3]
    /\ used = [loads |-> 1, slides |-> 0, modes |-> 0]
    /\ lastOp = NoOp

GeomFrame == UNCHANGED <<stlFile, reads, scene, measureStartPoint, measureLine,
                         marginLine, marginPoints, crossSectionValue,
                         crossSectionPlane, planeHelper, notes, listener, nextId, used>>

\* the mode selector
GeomSetMode(m) ==
    /\ m # mode
    /\ mode' = m
    /\ UNCHANGED <<activeMesh, neighborsOut, averageOut, lastOp>>
    /\ GeomFrame

\* applyDeformation(point) in the current mode
GeomDeform(point) ==
    /\ lastOp.n < MaxOps
    /\ activeMesh' = applyDeformation(activeMesh, mode, point)
    /\ lastOp' = [kind |-> "deform", mode |-> mode, point |-> point, target |-> 0,
                  onMesh |-> FALSE, n |-> lastOp.n + 1]
    /\ UNCHANGED <<mode, neighborsOut, averageOut>>
    /\ GeomFrame

\* performOcclusalAnalysis(point)
GeomOcclusal(point) ==
    /\ lastOp.n < MaxOps
    /\ activeMesh' = performOcclusalAnalysis(activeMesh, point)
    /\ lastOp' = [kind |-> "occlusal", mode |-> mode, point |-> point, target |-> 0,
                  onMesh |-> FALSE, n |-> lastOp.n + 1]
    /\ UNCHANGED <<mode, neighborsOut, averageOut>>
    /\ GeomFrame

\* findNeighborVertices(vertexIndex, geometry)
GeomNeighbors(vertexIndex) ==
    /\ lastOp.n < MaxOps
    /\ neighborsOut' = findNeighborVertices(vertexIndex, activeMesh.position)
    /\ lastOp' = [kind |-> "neighbors", mode |-> mode, point |-> Zero3,
                  target |-> vertexIndex, onMesh |-> FALSE,
                  n |-> lastOp.n + 1]
    /\ UNCHANGED <<mode, activeMesh, averageOut>>
    /\ GeomFrame

\* the index lists averaged: the neighbours of each vertex, and one whole triangle
AverageInputs(position) ==
    {findNeighborVertices(v, position) : v \in 1..Len(position)} \cup {<<1, 2, 3>>}

\* calculateAveragePosition(indices, position)
GeomAverage(indices) ==
    /\ lastOp.n < MaxOps
    /\ averageOut' = [indices |-> indices,
                      avg |-> calculateAveragePosition(indices, activeMesh.position)]
    /\ lastOp' = [kind |-> "average", mode |-> mode, point |-> Zero3, target |-> 0,
                  onMesh |-> FALSE, n |-> lastOp.n + 1]
    /\ UNCHANGED <<mode, activeMesh, neighborsOut>>
    /\ GeomFrame

GeomNext ==
    \/ \E m \in DeformModes : GeomSetMode(m)
    \/ \E point \in GeomPoints : GeomDeform(point)
    \/ \E point \in GeomPoints : GeomOcclusal(point)
    \/ \E vertexIndex \in 1..Len(activeMesh.position) : GeomNeighbors(vertexIndex)
    \/ \E indices \in AverageInputs(activeMesh.position) : GeomAverage(indices)

GeomSpec == GeomInit /\ [][GeomNext]_vars

-----------------------------------------------------------------------------
(* The component: scene objects, React state and the registered listener    *)

Modes == {"view", "pick", "measure", "push", "smooth", "scale", "margin",
          "occlusal", "section", "note"}

\* an object of scene.children: its identity, what it is, the points of its
\* geometry (world frame) and, for a distance label, the number it shows.
\* The two lights of the scene are left out: they are never hit by a ray,
\* never removed and no operation reads them.
Obj(id, kind, pts, val) == [id |-> id, kind |-> kind, pts |-> pts, val |-> val]

\* scene.add(object)
SceneAdd(sc, o) == Append(sc, o)

\* scene.remove(object), by identity
SceneRemove(sc, id) == SelectSeq(sc, LAMBDA o : o.id # id)

Count(sc, kind) == Cardinality({k \in 1..Len(sc) : sc[k].kind = kind})

Ids(sc) == {sc[k].id : k \in 1..Len(sc)}

\* the state a handler reads and writes
Cur == [activeMesh |-> activeMesh, scene |-> scene,
        measureStartPoint |-> measureStartPoint, measureLine |-> measureLine,
        marginLine |-> marginLine, marginPoints |-> marginPoints,
        crossSectionValue |-> crossSectionValue,
        crossSectionPlane |-> crossSectionPlane, planeHelper |-> planeHelper,
        notes |-> notes, nextId |-> nextId]

\* the values handleClick closes over, as of the render that registered it
Closure(m, st) == [mode |-> m, measureStartPoint |-> st.measureStartPoint,
                   measureLine |-> st.measureLine, marginPoints |-> st.marginPoints,
                   marginLine |-> st.marginLine, notes |-> st.notes]

\* the dependency list of the click-listener effect
ListenerDeps(c) == <<c.mode, c.measureStartPoint, c.measureLine, c.marginPoints, c.notes>>

\* the click-listener effect after a render: the listener is replaced when a
\* dependency changed
RegisterListener(old, m, st) ==
    IF ListenerDeps(Closure(m, st)) # ListenerDeps(old) THEN Closure(m, st) ELSE old

\* the cross-section offset effect after a render: runs when crossSectionValue
\* or mode changed
OffsetEffect(st, oldValue, oldMode, m) ==
    IF /\ <<st.crossSectionValue, m>> # <<oldValue, oldMode>>
       /\ m = "section"
       /\ st.crossSectionPlane # Null
       /\ st.planeHelper # 0
    THEN [st EXCEPT !.crossSectionPlane.constant = -st.crossSectionValue]
    ELSE st

\* toFixed(2) of a distance, in hundredths
ToFixed2(distance) == (distance + 5) \div 10

\* const midPoint = (a + b) * 0.5
MidPoint(a, b) == multiplyScalar(VAdd(a, b), 500)

KeepPreviousMeasure(sc, ml) == sc

\* if (measureLine) { scene.remove(measureLine.line); scene.remove(measureLine.label) }
RemovePreviousMeasure(sc, ml) ==
    IF ml # Null THEN SceneRemove(SceneRemove(sc, ml.line), ml.label) ELSE sc

RemoveStartMarkerOnly(sc, startMarker, pointMesh) == SceneRemove(sc, startMarker)

\* scene.remove(measureStartPoint.marker); scene.remove(pointMesh)
RemoveMarkers(sc, startMarker, pointMesh) ==
    SceneRemove(SceneRemove(sc, startMarker), pointMesh)

\* handleClick, case 'measure'
MeasureClick(st, l, point) ==
    LET pointMesh == Obj(st.nextId, "marker", <<point>>, 0)
    IN  IF l.measureStartPoint = Null
        THEN [st EXCEPT !.scene = SceneAdd(@, pointMesh),
                        !.measureStartPoint = [position |-> point, marker |-> pointMesh.id],
                        !.nextId = @ + 1]
        ELSE LET start == l.measureStartPoint.position
                 distance == distanceTo(start, point)
                 line == Obj(st.nextId + 1, "measureLine", <<start, point>>, 0)
                 label == Obj(st.nextId + 2, "label", <<MidPoint(start, point)>>,
                              ToFixed2(distance))
                 sc1 == SceneAdd(st.scene, pointMesh)
                 sc2 == RemovePreviousMeasure(sc1, l.measureLine)
                 sc3 == SceneAdd(SceneAdd(sc2, line), label)
                 sc4 == RemoveMarkers(sc3, l.measureStartPoint.marker, pointMesh.id)
             IN  [st EXCEPT !.scene = sc4,
                            !.measureLine = [line |-> line.id, label |-> label.id],
                            !.measureStartPoint = Null,
                            !.nextId = @ + 3]

KeepPreviousMargin(sc, mgl) == sc

\* if (marginLine) scene.remove(marginLine.line)
RemovePreviousMargin(sc, mgl) ==
    IF mgl # Null THEN SceneRemove(sc, mgl.line) ELSE sc

\* createMarginLine(points), with the marginLine its closure holds
createMarginLine(st, l, points) ==
    IF Len(points) < 2 THEN st
    ELSE LET line == Obj(st.nextId, "marginLine", points, 0)
         IN  [st EXCEPT !.scene = SceneAdd(RemovePreviousMargin(@, l.marginLine), line),
                        !.marginLine = [points |-> points, line |-> line.id],
                        !.nextId = @ + 1]

\* [...marginPoints, intersectionPoint]
NextMarginPoints(points, point) == Append(points, point)

\* handleClick, case 'margin'
MarginClick(st, l, point) ==
    LET points == NextMarginPoints(l.marginPoints, point)
    IN  createMarginLine([st EXCEPT !.marginPoints = points], l, points)

\* new THREE.Plane().setFromNormalAndCoplanarPoint(normal, point)
setFromNormalAndCoplanarPoint(normal, point) ==
    [normal |-> normal, constant |-> -Div(Dot(point, normal), U)]

createCrossSection(st, point, normal) ==
    IF st.activeMesh = Null THEN st
    ELSE LET sc == IF st.planeHelper # 0 THEN SceneRemove(st.scene, st.planeHelper)
                   ELSE st.scene
             helper == Obj(st.nextId, "planeHelper", <<>>, 0)
         IN  [st EXCEPT !.scene = SceneAdd(sc, helper),
                        !.planeHelper = helper.id,
                        !.crossSectionPlane = setFromNormalAndCoplanarPoint(normal, point),
                        !.activeMesh.clipped = TRUE,
                        !.nextId = @ + 1]

UpVector == <<0, U, 0>>

\* handleClick, case 'section'
SectionClick(st, point) ==
    [createCrossSection(st, point, UpVector) EXCEPT !.crossSectionValue = 0]

\* handleClick, case 'pick'
PickClick(st, point) ==
    [st EXCEPT !.scene = SceneAdd(@, Obj(st.nextId, "marker", <<point>>, 0)),
               !.nextId = @ + 1]

\* what prompt() returns: "" for cancel or an empty answer
NoteTexts == {"", "check"}

\* handleClick, case 'note'
NoteClick(st, l, point, noteText) ==
    IF noteText # ""
    THEN [st EXCEPT !.scene = SceneAdd(@, Obj(st.nextId, "note", <<point>>, 0)),
                    !.notes = Append(l.notes, [position |-> point, text |-> noteText,
                                               sprite |-> st.nextId]),
                    !.nextId = @ + 1]
    ELSE st

\* handleClick once the ray has hit something at point: the switch on mode
handleClick(st, l, point, noteText) ==
    CASE l.mode \in DeformModes -> [st EXCEPT !.activeMesh = applyDeformation(@, l.mode, point)]
      [] l.mode = "margin"      -> MarginClick(st, l, point)
      [] l.mode = "occlusal"    -> [st EXCEPT !.activeMesh = performOcclusalAnalysis(@, point)]
      [] l.mode = "section"     -> SectionClick(st, point)
      [] l.mode = "measure"     -> MeasureClick(st, l, point)
      [] l.mode = "pick"        -> PickClick(st, point)
      [] l.mode = "note"        -> NoteClick(st, l, point, noteText)
      [] OTHER                  -> st

MarkerRadius == 50      \* new THREE.SphereGeometry(0.05)

\* the vertices of the model at which the model lets a ray hit the surface
HitVertices == {3}

\* raycaster.intersectObjects(scene.children): the points (world frame) at
\* which a ray can first hit object o
HitPoints(o) ==
    CASE o.kind = "model" ->
            IF activeMesh # Null /\ activeMesh.id = o.id
            THEN {VAdd(activeMesh.position[i], activeMesh.meshPosition) :
                      i \in HitVertices \cap (1..Len(activeMesh.position))}
            ELSE {}
      [] o.kind = "marker" -> {VAdd(o.pts[1], <<0, 0, MarkerRadius>>)}
      [] o.kind = "planeHelper" ->
            IF crossSectionPlane # Null
            THEN {multiplyScalar(crossSectionPlane.normal, -crossSectionPlane.constant)}
            ELSE {}
      [] OTHER -> {o.pts[1]}

\* the render after a handler: both effects, then the new values of the variables
Commit(st, m) ==
    LET st2 == OffsetEffect(st, crossSectionValue, mode, m)
    IN  /\ mode' = m
        /\ activeMesh' = st2.activeMesh
        /\ scene' = st2.scene
        /\ measureStartPoint' = st2.measureStartPoint
        /\ measureLine' = st2.measureLine
        /\ marginLine' = st2.marginLine
        /\ marginPoints' = st2.marginPoints
        /\ crossSectionValue' = st2.crossSectionValue
        /\ crossSectionPlane' = st2.crossSectionPlane
        /\ planeHelper' = st2.planeHelper
        /\ notes' = st2.notes
        /\ nextId' = st2.nextId
        /\ listener' = RegisterListener(listener, m, st2)

Init ==
    /\ stlFile = 0
    /\ reads = {}
    /\ mode = "view"
    /\ activeMesh = Null
    /\ scene = <<>>
    /\ measureStartPoint = Null
    /\ measureLine = Null
    /\ marginLine = Null
    /\ marginPoints = <<>>
    /\ crossSectionValue = 0
    /\ crossSectionPlane = Null
    /\ planeHelper = 0
    /\ notes = <<>>
    /\ listener = [mode |-> "view", measureStartPoint |-> Null, measureLine |-> Null,
                   marginPoints |-> <<>>, marginLine |-> Null, notes |-> <<>>]
    /\ nextId = 1
    /\ neighborsOut = <<>>
    /\ averageOut = [indices |-> <<>>, avg |-> Zero3]
    /\ used = [loads |-> 0, slides |-> 0, modes |-> 0]
    /\ lastOp = NoOp

\* the files the user can choose: a name, whether it ends in ".stl", and
\* what the decoder makes of the bytes ("" when it throws)
Uploads == { [name |-> "b.stl", stl |-> TRUE, content |-> "B"],
             [name |-> "c.stl", stl |-> TRUE, content |-> "C"],
             [name |-> "bad.stl", stl |-> TRUE, content |-> ""],
             [name |-> "scan.obj", stl |-> FALSE, content |-> ""] }

\* the identity of the k-th File object chosen, and of the mesh decoded from
\* it; negative, apart from the identities of the other scene objects
FileId(k) == -k

\* Index.handleFileUpload, then the STL load effect of Viewer3D, which
\* starts a FileReader for the new file
handleFileUpload(file) ==
    /\ IF file.stl
       THEN /\ used.loads < MaxLoads
            /\ used' = [used EXCEPT !.loads = @ + 1]
            /\ stlFile' = FileId(used.loads + 1)
            /\ reads' = reads \cup {[id |-> FileId(used.loads + 1), content |-> file.content]}
       ELSE UNCHANGED <<stlFile, reads, used>>
    /\ UNCHANGED <<nextId, mode, activeMesh, scene, measureStartPoint, measureLine, marginLine,
                   marginPoints, crossSectionValue, crossSectionPlane, planeHelper,
                   notes, listener, neighborsOut, averageOut, lastOp>>

\* scene.children.forEach(child => { if (child instanceof THREE.Mesh &&
\* !child.isPoint) scene.remove(child) }): forEach visits the indices
\* 1..n of the array as it is when each index comes up, so the element that
\* slides into a removed slot is not visited
RECURSIVE ClearModels(_, _, _)
ClearModels(children, i, n) ==
    IF i > n \/ i > Len(children) THEN children
    ELSE IF children[i].kind = "model"
         THEN ClearModels(SceneRemove(children, children[i].id), i + 1, n)
         ELSE ClearModels(children, i + 1, n)

\* reader.onload for one of the reads in flight
ReaderOnload(r) ==
    /\ reads' = reads \ {r}
    /\ IF r.content # ""
       THEN LET mesh == NewMesh(r.id, r.content)
            IN  /\ activeMesh' = mesh
                /\ scene' = SceneAdd(ClearModels(scene, 1, Len(scene)), ModelObject(mesh))
       ELSE UNCHANGED <<activeMesh, scene>>
    /\ UNCHANGED <<stlFile, mode, measureStartPoint, measureLine, marginLine,
                   marginPoints, crossSectionValue, crossSectionPlane, planeHelper,
                   notes, listener, nextId, neighborsOut, averageOut, used,
                   lastOp>>

\* a toolbar button: setActiveMode(m)
SetMode(m) ==
    /\ m # mode
    /\ used.modes < MaxModeChanges
    /\ used' = [used EXCEPT !.modes = @ + 1]
    /\ Commit(Cur, m)
    /\ UNCHANGED <<stlFile, reads, neighborsOut, averageOut, lastOp>>

\* a click on the canvas whose ray first hits object target at point; onMesh
\* tells whether the ray crosses a triangle of the model anywhere along its
\* way (it always does when the model is the first hit), which the handler
\* does not look at: it reads intersects[0] only
Click(target, point, onMesh, noteText) ==
    /\ lastOp.n < MaxClicks
    /\ lastOp' = [kind |-> "click", mode |-> listener.mode, point |-> point,
                  target |-> target.kind, onMesh |-> onMesh,
                  n |-> lastOp.n + 1]
    /\ Commit(handleClick(Cur, listener, point, noteText), mode)
    /\ UNCHANGED <<stlFile, reads, neighborsOut, averageOut, used>>

\* the values the slider is moved to (min -5, max 5)
OffsetValues == {-5000, 0, 2500}

\* the slider: onValueChange(value) => setCrossSectionValue(value[0]); it is
\* rendered when mode is 'section' and a plane helper exists.  The handler
\* takes any value of the range; with the value the state already holds,
\* setCrossSectionValue changes nothing and no effect runs
SetOffset(value) ==
    /\ mode = "section"
    /\ planeHelper # 0
    /\ used.slides < MaxSlides
    /\ used' = [used EXCEPT !.slides = @ + 1]
    /\ Commit([Cur EXCEPT !.crossSectionValue = value], mode)
    /\ UNCHANGED <<stlFile, reads, neighborsOut, averageOut, lastOp>>

Next ==
    \/ \E file \in Uploads : handleFileUpload(file)
    \/ \E r \in reads : ReaderOnload(r)
    \/ \E m \in Modes : SetMode(m)
    \/ \E k \in 1..Len(scene) : \E point \in HitPoints(scene[k]) :
          \E onMesh \in (IF scene[k].kind = "model" THEN {TRUE} ELSE BOOLEAN) :
             \E noteText \in (IF listener.mode = "note" THEN NoteTexts ELSE {""}) :
                Click(scene[k], point, onMesh, noteText)
    \/ \E value \in OffsetValues : SetOffset(value)

Spec == Init /\ [][Next]_vars

-----------------------------------------------------------------------------
(* Properties of the geometric operations, checked under GeomSpec *)

GeomStep(kind) == lastOp'.n = lastOp.n + 1 /\ lastOp'.kind = kind

Vertices == 1..Len(activeMesh.position)

SameTriangle(i, j) == (i - 1) \div 3 = (j - 1) \div 3

\* C4 as stated: one Push deformation leaves every vertex whose distance to
\* the pick point is >= the radius unchanged in position and in normal
C4_PushLeavesFarPositionsAndNormals ==
    [][GeomStep("deform") /\ mode = "push" =>
          \A i \in Vertices :
              DistSq(activeMesh.position[i], lastOp'.point) >= Radius * Radius =>
                  /\ activeMesh'.position[i] = activeMesh.position[i]
                  /\ activeMesh'.normal[i] = activeMesh.normal[i]]_vars

\* C4 amended: one Push deformation leaves the position of every vertex
\* whose distance to the pick point is >= the radius unchanged
C4_PushLeavesFarPositions ==
    [][GeomStep("deform") /\ mode = "push" =>
          \A i \in Vertices :
              DistSq(activeMesh.position[i], lastOp'.point) >= Radius * Radius =>
                  activeMesh'.position[i] = activeMesh.position[i]]_vars

\* a push has moved vertex i of the decoded mesh and left vertex j of the same
\* triangle, at or beyond the radius, where the file put it
C4_Witness ==
    /\ lastOp.kind = "deform" /\ lastOp.mode = "push" /\ lastOp.n = 1
    /\ \E i, j \in Vertices :
          /\ SameTriangle(i, j)
          /\ activeMesh.position[i] # FileGeometry(activeMesh.file)[i]
          /\ activeMesh.position[j] = FileGeometry(activeMesh.file)[j]
          /\ DistSq(activeMesh.position[j], lastOp.point) >= Radius * Radius

\* a deformation that reads every position from a copy of the buffer taken
\* when the invocation starts
SnapshotDeform(position, normal, m, point) ==
    [i \in 1..Len(position) |->
        LET distance == distanceTo(position[i], point)
        IN  IF distance < Radius
            THEN DeformVertex(i, position, normal, m, point, distance)
            ELSE position[i]]

\* C5: within one deformation every new position is computed from the
\* positions as they were when the invocation started
C5_DeformReadsSnapshot ==
    [][GeomStep("deform") =>
          activeMesh'.position =
              SnapshotDeform(activeMesh.position, activeMesh.normal, mode,
                             lastOp'.point)]_vars

\* C8: an occlusal analysis colours every vertex red when its distance to
\* the reference point is < 0.5 and blue otherwise, whatever the colours
\* were; repeating it with the same point changes nothing
C8_OcclusalClassification ==
    [][GeomStep("occlusal") =>
          /\ activeMesh'.position = activeMesh.position
          /\ DOMAIN activeMesh'.color = Vertices
          /\ \A i \in Vertices :
                activeMesh'.color[i] =
                    IF DistSq(activeMesh.position[i], lastOp'.point)
                           < ContactDistance * ContactDistance
                    THEN "red" ELSE "blue"
          /\ (lastOp.kind = "occlusal" /\ lastOp.point = lastOp'.point) =>
                activeMesh'.color = activeMesh.color]_vars

\* a second analysis has coloured a vertex at exactly 0.5 blue and another red
C8_Witness ==
    /\ lastOp.kind = "occlusal" /\ lastOp.n = 2
    /\ \E i, j \in Vertices :
          /\ DistSq(activeMesh.position[i], lastOp.point)
                 = ContactDistance * ContactDistance
          /\ activeMesh.color[i] = "blue"
          /\ activeMesh.color[j] = "red"

Range(q) == {q[k] : k \in 1..Len(q)}

\* C10 as stated: the neighbour query returns exactly the indices whose
\* distance to vertex v is < epsilon
C10_NeighborsAllWithinEpsilon ==
    [][GeomStep("neighbors") =>
          Range(neighborsOut') =
              {i \in Vertices :
                  DistSq(activeMesh.position[i], activeMesh.position[lastOp'.target])
                      < Epsilon * Epsilon}]_vars

\* C10 amended: the neighbour query returns exactly the indices other than
\* v whose distance to vertex v is < epsilon
C10_NeighborsOthersWithinEpsilon ==
    [][GeomStep("neighbors") =>
          Range(neighborsOut') =
              {i \in Vertices \ {lastOp'.target} :
                  DistSq(activeMesh.position[i], activeMesh.position[lastOp'.target])
                      < Epsilon * Epsilon}]_vars

\* a query has returned a neighbour and left out a vertex at exactly epsilon
C10_Witness ==
    /\ lastOp.kind = "neighbors"
    /\ neighborsOut # <<>>
    /\ \E i \in Vertices \ {lastOp.target} :
          /\ DistSq(activeMesh.position[i], activeMesh.position[lastOp.target])
                 = Epsilon * Epsilon
          /\ i \notin Range(neighborsOut)

-----------------------------------------------------------------------------
(* Properties of the component, checked under Spec *)

ClickStep == lastOp'.n = lastOp.n + 1 /\ lastOp'.kind = "click"

\* the objects of scene' that were not in scene
Added == {k \in 1..Len(scene') : scene'[k].id \notin Ids(scene)}

\* C1: from Empty a measure-mode pick stores the point, arms the measurement
\* and adds exactly one marker to the scene; from Armed the next measure-mode
\* pick returns to Empty, adds exactly one line and one label, and leaves
\* neither of the two markers in the scene
C1_MeasureCycle ==
    [][ClickStep /\ mode = "measure" =>
          IF measureStartPoint = Null
          THEN /\ measureStartPoint' # Null
               /\ measureStartPoint'.position = lastOp'.point
               /\ Len(scene') = Len(scene) + 1
               /\ SubSeq(scene', 1, Len(scene)) = scene
               /\ scene'[Len(scene')].kind = "marker"
               /\ scene'[Len(scene')].id = measureStartPoint'.marker
               /\ scene'[Len(scene')].id \notin Ids(scene)
          ELSE /\ measureStartPoint' = Null
               /\ Cardinality(Added) = 2
               /\ \E a, b \in Added :
                     /\ scene'[a].kind = "measureLine" /\ scene'[a].id = measureLine'.line
                     /\ scene'[b].kind = "label" /\ scene'[b].id = measureLine'.label
               /\ measureStartPoint.marker \notin Ids(scene')
               /\ Count(scene', "marker") = Count(scene, "marker") - 1]_vars

\* a measure-mode pick has completed a measurement
C1_Witness ==
    /\ lastOp.kind = "click" /\ lastOp.mode = "measure"
    /\ measureStartPoint = Null
    /\ measureLine # Null
    /\ Count(scene, "measureLine") = 1 /\ Count(scene, "label") = 1
    /\ Count(scene, "marker") = 0

\* C2: the scene never holds more than one measurement line nor more than
\* one measurement label
C2_AtMostOneMeasurement ==
    /\ Count(scene, "measureLine") <= 1
    /\ Count(scene, "label") <= 1

\* a second measurement has been completed and has replaced the first
C2_Witness ==
    /\ lastOp.kind = "click" /\ lastOp.mode = "measure" /\ lastOp.n = 4
    /\ measureStartPoint = Null
    /\ measureLine # Null /\ measureLine.line > 4
    /\ Count(scene, "measureLine") = 1

NewMeshStep ==
    /\ activeMesh' # Null
    /\ activeMesh # Null
    /\ activeMesh'.id # activeMesh.id

\* C3: once a new mesh has been loaded the margin points and line, the
\* measurement start point and its marker, and the cross-section plane and
\* its helper of the previous mesh are gone
C3_LoadInvalidatesDerivedState ==
    [][NewMeshStep =>
          /\ marginPoints' = <<>>
          /\ marginLine' = Null
          /\ Count(scene', "marginLine") = 0
          /\ measureStartPoint' = Null
          /\ measureStartPoint # Null => measureStartPoint.marker \notin Ids(scene')
          /\ crossSectionPlane' = Null
          /\ planeHelper' = 0
          /\ Count(scene', "planeHelper") = 0]_vars

SlideStep == used'.slides = used.slides + 1

\* C6: after a section pick, setting the slider to any value v of its range
\* leaves the clip plane with constant -v
C6_OffsetSetsConstant ==
    [][SlideStep => crossSectionPlane'.constant = -crossSectionValue']_vars

\* the plane with this normal and constant contains point
OnPlane(plane, point) == Div(Dot(plane.normal, point), U) + plane.constant = 0

\* C7: after a section-mode pick at point p the clip plane has the up normal,
\* passes through p, and the offset is 0
C7_SectionPlaneThroughPick ==
    [][ClickStep /\ mode = "section" =>
          /\ crossSectionPlane' # Null
          /\ crossSectionPlane'.normal = UpVector
          /\ OnPlane(crossSectionPlane', lastOp'.point)
          /\ crossSectionValue' = 0]_vars

C9_Lines == {k \in 1..Len(scene) : scene[k].kind = "marginLine"}

C9_Shape ==
    /\ Cardinality(C9_Lines) <= 1
    /\ Len(marginPoints) < 2 => C9_Lines = {} /\ marginLine = Null
    /\ Len(marginPoints) >= 2 =>
          /\ marginLine # Null
          /\ marginLine.points = marginPoints
          /\ \E k \in C9_Lines :
                scene[k].id = marginLine.line /\ scene[k].pts = marginPoints

C9_AppendOnly ==
    IF ClickStep /\ mode = "margin"
    THEN marginPoints' = Append(marginPoints, lastOp'.point)
    ELSE marginPoints' = marginPoints

\* C9: the margin sequence grows by exactly the picked point at each
\* margin-mode pick and changes at no other step; the scene holds at most one
\* margin polyline, none while fewer than 2 points are stored, and from 2
\* points on the one polyline runs through all stored points in order
C9_MarginLine == []C9_Shape /\ [][C9_AppendOnly]_vars

\* a third margin pick has replaced the polyline of the first two
C9_Witness ==
    /\ lastOp.kind = "click" /\ lastOp.mode = "margin"
    /\ Len(marginPoints) = 3
    /\ Cardinality(C9_Lines) = 1
    /\ marginLine.points = marginPoints

RECURSIVE ComponentSum(_, _, _)
ComponentSum(indices, position, k) ==
    IF indices = <<>> THEN 0
    ELSE position[Head(indices)][k] + ComponentSum(Tail(indices), position, k)

\* avg is the quotient of total by count, truncated toward zero
IsMean(avg, total, count) ==
    /\ Abs(total - count * avg) < count
    /\ (total >= 0 => avg >= 0) /\ (total <= 0 => avg <= 0)

\* C11: the average position of an empty index list (the neighbours of an
\* isolated vertex) is the zero vector, and that of a non-empty list is the
\* centroid of the indexed positions
C11_AverageOfNeighbors ==
    [][GeomStep("average") =>
          IF averageOut'.indices = <<>>
          THEN averageOut'.avg = Zero3
          ELSE \A k \in 1..3 :
                  IsMean(averageOut'.avg[k],
                         ComponentSum(averageOut'.indices, activeMesh.position, k),
                         Len(averageOut'.indices))]_vars

\* the neighbours of an isolated vertex, away from the origin, were averaged
C11_Witness ==
    /\ lastOp.kind = "average"
    /\ averageOut.indices = <<>>
    /\ averageOut.avg = Zero3
    /\ \E v \in Vertices :
          /\ activeMesh.position[v] # Zero3
          /\ \A i \in Vertices \ {v} :
                DistSq(activeMesh.position[i], activeMesh.position[v])
                    >= Epsilon * Epsilon

\* vertex i has no other vertex within epsilon
Isolated(i) ==
    \A j \in Vertices \ {i} :
        DistSq(activeMesh.position[i], activeMesh.position[j]) >= Epsilon * Epsilon

\* C14: a Smooth deformation leaves every vertex inside the radius that has
\* no epsilon-neighbours where it was
C14_SmoothKeepsIsolatedVertices ==
    [][GeomStep("deform") /\ mode = "smooth" =>
          \A i \in Vertices :
              (/\ Isolated(i)
               /\ DistSq(activeMesh.position[i], lastOp'.point) < Radius * Radius) =>
                  activeMesh'.position[i] = activeMesh.position[i]]_vars

\* C12: a click whose ray crosses no triangle of the model changes neither
\* the mesh buffers, the measurement, margin and cross-section state, the
\* notes nor the scene, whatever else lies along the ray
C12_MissPerformsNothing ==
    [][ClickStep /\ ~lastOp'.onMesh =>
          UNCHANGED <<activeMesh, scene, measureStartPoint, measureLine, marginLine,
                      marginPoints, crossSectionValue, crossSectionPlane,
                      planeHelper, notes>>]_vars

\* the file selected last can be decoded: its mesh is the active one or its
\* read is still in flight with decodable content
LastDecodable ==
    \/ activeMesh # Null /\ activeMesh.id = stlFile
    \/ \E r \in reads : r.id = stlFile /\ r.content # ""

ModelIds(sc) == {sc[k].id : k \in {n \in 1..Len(sc) : sc[n].kind = "model"}}

\* C13: when the last read in flight completes, whatever the order of
\* completion, the active mesh and the one model of the scene are the mesh
\* decoded from the file selected last
C13_LastSelectedFileWins ==
    [][(reads # {} /\ reads' = {} /\ LastDecodable) =>
          /\ activeMesh' # Null
          /\ activeMesh'.id = stlFile
          /\ ModelIds(scene') = {stlFile}]_vars

\* the position at which vertex i of the mesh is displayed
Displayed(i) == VAdd(activeMesh.position[i], activeMesh.meshPosition)

\* C15: at a click on the model the vertices treated as within reach of the
\* pick are those displayed within reach of it: a deformation moves no
\* vertex displayed at the radius or beyond, and an occlusal analysis colours
\* red exactly the vertices displayed closer than 0.5
C15_PickInMeshFrame ==
    [][ClickStep /\ lastOp'.target = "model" =>
          /\ mode \in DeformModes =>
                \A i \in Vertices :
                    activeMesh'.position[i] # activeMesh.position[i] =>
                        DistSq(Displayed(i), lastOp'.point) < Radius * Radius
          /\ mode = "occlusal" =>
                \A i \in Vertices :
                    activeMesh'.color[i] = "red" <=>
                        DistSq(Displayed(i), lastOp'.point)
                            < ContactDistance * ContactDistance]_vars

====
